---- MODULE Spec2Model ----
(***************************************************************************)
(* licenseme: SPDX license generator (src/licenseme_cli/cli.py).           *)
(*                                                                         *)
(* Python str values are TLA+ strings; Optional[str] is <<>> (None) or     *)
(* <<s>>; a Context (dict) is a function whose DOMAIN is its key set.      *)
(***************************************************************************)
EXTENDS Integers, Sequences, FiniteSets, TLC

VARIABLES
    pc,             \* control location of the running call
    args,           \* argparse Namespace of main (the options read so far)
    spec,           \* the LicenseSpec in use, or NoSpec
    skip_prompts,   \* collect_field_values' skip_prompts argument
    overrides,      \* Optional[Context] handed to collect_field_values
    values,         \* the Context being built / used
    idx,            \* position in spec.fields of the field being resolved
    prompt,         \* prompt text of the pending input() call
    prompt_default, \* accept-on-empty value of the pending input() call
    stdin,          \* lines still to be read from standard input, then EOF
    identity,       \* what the environment/git lookups returned when read
    storage,        \* template resource loaded by load_license_text
    output_text,    \* value returned by the call (rendered text, tagline)
    error,          \* exception raised and not caught: <<>> or <<type, msg>>
    stdout,         \* license text written by sys.stdout.write
    stderr,         \* lines printed to sys.stderr
    fs,             \* the output path as main found it and left it: <<>> absent, <<text>> present
    exit_code,      \* return value of main: <<>> while running
    log             \* lines of the source executed: calls, prompts, writes

vars == <<pc, args, spec, skip_prompts, overrides, values, idx, prompt,
          prompt_default, stdin, identity, storage, output_text, error,
          stdout, stderr, fs, exit_code, log>>

-----------------------------------------------------------------------------
(* Python built-ins used by the source *)

None == <<>>
Some(s) == <<s>>

Char(s, i) == SubSeq(s, i, i)

Whitespace == {" ", "\t", "\n"}

Min(S) == CHOOSE x \in S : \A y \in S : x <= y
Max(S) == CHOOSE x \in S : \A y \in S : y <= x

\* positions of the characters of s that are not whitespace
Inked(s) == {i \in 1..Len(s) : Char(s, i) \notin Whitespace}

\* str.strip(): drop leading and trailing whitespace
strip(s) ==
    IF s = "" \/ (Char(s, 1) \notin Whitespace /\ Char(s, Len(s)) \notin Whitespace)
    THEN s
    ELSE IF Inked(s) = {} THEN "" ELSE SubSeq(s, Min(Inked(s)), Max(Inked(s)))

\* str.startswith at offset i (1-based)
MatchAt(text, token, i) ==
    /\ i + Len(token) - 1 <= Len(text)
    /\ Char(text, i) = Char(token, 1)
    /\ SubSeq(text, i, i + Len(token) - 1) = token

\* token in text
Contains(text, token) == \E i \in 1..(Len(text) + 1) : MatchAt(text, token, i)

\* str.endswith
endswith(text, suffix) ==
    /\ Len(suffix) <= Len(text)
    /\ SubSeq(text, Len(text) - Len(suffix) + 1, Len(text)) = suffix

\* position of the first occurrence of token in text, 0 when absent (str.find + 1)
find(text, token) ==
    LET matches == {i \in 1..(Len(text) + 1) : MatchAt(text, token, i)}
    IN  IF matches = {} THEN 0 ELSE Min(matches)

\* str.replace(token, value) for a non-empty token: the leftmost occurrence
\* is replaced and scanning resumes after it, so occurrences do not overlap
\* and the inserted value is not rescanned
RECURSIVE replace(_, _, _)
replace(text, token, value) ==
    LET i == find(text, token)
    IN  IF i = 0 THEN text
        ELSE SubSeq(text, 1, i - 1) \o value
                \o replace(SubSeq(text, i + Len(token), Len(text)), token, value)

UpperCase == "ABCDEFGHIJKLMNOPQRSTUVWXYZ"
LowerCase == "abcdefghijklmnopqrstuvwxyz"
Digits == "0123456789"

\* str.lower() of one character
lowerChar(c) ==
    IF Contains(UpperCase, c) /\ Len(c) = 1
    THEN Char(LowerCase, find(UpperCase, c))
    ELSE c

\* str.isalnum() of one lower-cased character
isalnum(c) == Len(c) = 1 /\ (Contains(LowerCase, c) \/ Contains(UpperCase, c) \/ Contains(Digits, c))

\* dict.get(key, default)
Get(context, key, default) ==
    IF key \in DOMAIN context THEN context[key] ELSE default

\* the assignment dropped
PutNothing(context, key, value) == context

\* context[key] = value
Put(context, key, value) ==
    [k \in (DOMAIN context) \cup {key} |-> IF k = key THEN value ELSE context[k]]

EmptyContext == [k \in {} |-> ""]

\* repr() of a str, as str(KeyError(msg)) prints its message
reprChar(c, quote) ==
    IF c = "\\" THEN "\\\\"
    ELSE IF c = "\n" THEN "\\n"
    ELSE IF c = "\t" THEN "\\t"
    ELSE IF c = quote THEN "\\" \o c
    ELSE c

\* the escaped characters of s joined, splitting s in halves
RECURSIVE reprBody(_, _)
reprBody(s, quote) ==
    IF Len(s) = 0 THEN ""
    ELSE IF Len(s) = 1 THEN reprChar(s, quote)
    ELSE LET half == Len(s) \div 2
         IN  reprBody(SubSeq(s, 1, half), quote)
                \o reprBody(SubSeq(s, half + 1, Len(s)), quote)

repr(s) ==
    LET quote == IF Contains(s, "'") /\ ~Contains(s, "\"") THEN "\"" ELSE "'"
    IN  quote \o reprBody(s, quote) \o quote

-----------------------------------------------------------------------------
(* Constants and helpers of cli.py *)

PLACEHOLDER_YEAR == "<year>"
PLACEHOLDER_HOLDER == "<copyright holder>"
PLACEHOLDER_OWNER == "<owner>"
PLACEHOLDER_EMAIL == "<email>"
PLACEHOLDER_PROJECT == "<project name>"
PLACEHOLDER_PROGRAM == "<program name>"
PLACEHOLDER_DESCRIPTION == "<description>"
PLACEHOLDER_URL == "<url>"

\* "".join(ch for ch in name.lower() if ch.isalnum())
\* splitting name in halves
RECURSIVE normalize_license_key(_)
normalize_license_key(name) ==
    IF Len(name) = 0 THEN ""
    ELSE IF Len(name) = 1
         THEN IF isalnum(lowerChar(name)) THEN lowerChar(name) ELSE ""
    ELSE LET half == Len(name) \div 2
         IN  normalize_license_key(SubSeq(name, 1, half))
                \o normalize_license_key(SubSeq(name, half + 1, Len(name)))

\* ensure_value without the strip
ensure_value_unstripped(text) ==
    IF text = None THEN "" ELSE text[1]

\* text.strip() if text else ""
ensure_value(text) ==
    IF text = None \/ text = Some("") THEN "" ELSE strip(text[1])

\* value or None
OrNone(value) == IF value = "" THEN None ELSE Some(value)

-----------------------------------------------------------------------------
(* Identity provider: environment variables, git config, clock, cwd *)

\* os.environ.get(var, "")
environ_get(env, var) == Get(env.environ, var, "")

\* read_git_config: stripped stdout, "" when git fails or is not installed
read_git_config(env, key) ==
    IF key \in DOMAIN env.git THEN strip(env.git[key]) ELSE ""

RECURSIVE FirstNonEmpty(_, _)
FirstNonEmpty(candidates, fallback) ==
    IF candidates = <<>> THEN fallback
    ELSE IF Head(candidates) # "" THEN Head(candidates)
         ELSE FirstNonEmpty(Tail(candidates), fallback)

guess_full_name(env) ==
    FirstNonEmpty(
        [i \in 1..6 |-> environ_get(env,
            <<"GIT_AUTHOR_NAME", "AUTHOR", "FULLNAME", "NAME", "USER", "USERNAME">>[i])],
        read_git_config(env, "user.name"))

guess_email(env) ==
    FirstNonEmpty(
        [i \in 1..3 |-> environ_get(env,
            <<"GIT_AUTHOR_EMAIL", "EMAIL", "AUTHOR_EMAIL">>[i])],
        read_git_config(env, "user.email"))

\* str(n) for a non-negative int
RECURSIVE str(_)
str(n) ==
    IF n < 10 THEN Char(Digits, n + 1)
    ELSE str(n \div 10) \o Char(Digits, (n % 10) + 1)

\* Path(p).name: the final path component
PathName(path) ==
    LET slashes == {i \in 1..Len(path) : Char(path, i) = "/"}
    IN  IF slashes = {} THEN path ELSE SubSeq(path, Max(slashes) + 1, Len(path))

default_year(env, context) == Some(str(env.year))

default_holder(env, context) == OrNone(guess_full_name(env))

default_email(env, context) == OrNone(guess_email(env))

default_project_name(env, context) == Some(PathName(env.cwd))

\* field.default_factory(values) if field.default_factory else ""
CallFactory(factory, env, context) ==
    IF factory = None THEN Some("")
    ELSE IF factory[1] = "default_year" THEN default_year(env, context)
    ELSE IF factory[1] = "default_holder" THEN default_holder(env, context)
    ELSE IF factory[1] = "default_email" THEN default_email(env, context)
    ELSE default_project_name(env, context)

-----------------------------------------------------------------------------
(* Helper functions used by the license templates *)

\* the holder alone, whatever the email
holder_without_email(context, holder_key, email_key) ==
    strip(Get(context, holder_key, ""))

holder_with_email(context, holder_key, email_key) ==
    LET holder == strip(Get(context, holder_key, ""))
        email == IF email_key # "" THEN strip(Get(context, email_key, "")) ELSE ""
    IN  IF holder # "" /\ email # ""
        THEN holder \o " <" \o email \o ">"
        ELSE holder

\* context.get(key): None when absent
GetOpt(context, key) ==
    IF key \in DOMAIN context THEN Some(context[key]) ELSE None

\* sep.join(pieces)
RECURSIVE join(_, _)
join(sep, pieces) ==
    IF pieces = <<>> THEN ""
    ELSE IF Len(pieces) = 1 THEN pieces[1]
         ELSE pieces[1] \o sep \o join(sep, Tail(pieces))

\* the tagline without its email segment
build_program_tagline_no_email(context) ==
    LET name == ensure_value(GetOpt(context, "program_name"))
        description == ensure_value(GetOpt(context, "program_description"))
        url == ensure_value(GetOpt(context, "program_url"))
        segments == SelectSeq(<<name, description, url>>, LAMBDA segment : segment # "")
    IN  IF segments # <<>> THEN join(" - ", segments) ELSE "This program"

build_program_tagline(context) ==
    LET name == ensure_value(GetOpt(context, "program_name"))
        description == ensure_value(GetOpt(context, "program_description"))
        url == ensure_value(GetOpt(context, "program_url"))
        email == ensure_value(GetOpt(context, "email"))
        segments == SelectSeq(<<name, description, url>>, LAMBDA segment : segment # "")
        pieces == IF email # "" THEN Append(segments, "<" \o email \o ">") ELSE segments
    IN  IF pieces # <<>> THEN join(" - ", pieces) ELSE "This program"

ensure_sentence(text) ==
    IF text = "" THEN text
    ELSE IF endswith(text, ".") THEN text ELSE text \o "."

gpl2_notice_line(context) ==
    LET line == ensure_sentence(build_program_tagline(context))
    IN  "     " \o line \o " Copyright (C) " \o Get(context, "year", "") \o " "
            \o holder_with_email(context, "copyright_holder", "email")

lgpl21_notice_block(context) ==
    LET tagline == ensure_sentence(build_program_tagline(context))
        header == "     " \o tagline
        body == "     Copyright (C) " \o Get(context, "year", "") \o " "
                    \o holder_with_email(context, "copyright_holder", "email")
    IN  header \o "\n" \o body

\* a ReplacementSpec.value: a callable, or a str naming a context key
Callable(fn) == [callable |-> TRUE, name |-> fn]
Literal(key) == [callable |-> FALSE, name |-> key]

evaluate_value(provider, context) ==
    IF provider.callable
    THEN IF provider.name = "holder_with_email"
            THEN holder_with_email(context, "copyright_holder", "email")
         ELSE IF provider.name = "holder_with_email_owner"
            THEN holder_with_email(context, "owner", "email")
         ELSE IF provider.name = "build_program_tagline"
            THEN build_program_tagline(context)
         ELSE IF provider.name = "lgpl21_notice_block"
            THEN lgpl21_notice_block(context)
         ELSE gpl2_notice_line(context)
    ELSE IF provider.name \in DOMAIN context THEN context[provider.name]
         ELSE provider.name

\* inner loop of apply_replacements: for token in repl.tokens
RECURSIVE ReplaceTokens(_, _, _)

\* no token replaced
ReplaceNoTokens(text, tokens, value) == text

ReplaceTokens(text, tokens, value) ==
    IF tokens = <<>> THEN text
    ELSE ReplaceTokens(replace(text, Head(tokens), value), Tail(tokens), value)

\* the rules applied from the last declared to the first
RECURSIVE apply_replacements_reversed(_, _, _)
apply_replacements_reversed(text, replacements, context) ==
    IF replacements = <<>> THEN text
    ELSE LET repl == replacements[Len(replacements)]
             value == evaluate_value(repl.value, context)
         IN  apply_replacements_reversed(ReplaceTokens(text, repl.tokens, value),
                                         SubSeq(replacements, 1, Len(replacements) - 1),
                                         context)

RECURSIVE apply_replacements(_, _, _)
apply_replacements(text, replacements, context) ==
    IF replacements = <<>> THEN text
    ELSE LET repl == Head(replacements)
             value == evaluate_value(repl.value, context)
         IN  apply_replacements(ReplaceTokens(text, repl.tokens, value),
                                Tail(replacements), context)

\* template.format_map(context) for templates of literal text and {name}
\* fields: [missing |-> <<>>, text |-> t], or [missing |-> <<name>>] for the
\* KeyError of the first field that is not a key of the context
RECURSIVE format_map(_, _)
format_map(template, context) ==
    LET open == find(template, "{")
        tail == SubSeq(template, open + 1, Len(template))
        close == find(tail, "}")
        name == SubSeq(tail, 1, close - 1)
        rest == format_map(SubSeq(tail, close + 1, Len(tail)), context)
    IN  IF open = 0 \/ close = 0 THEN [missing |-> None, text |-> template]
        ELSE IF name \notin DOMAIN context THEN [missing |-> Some(name), text |-> ""]
        ELSE IF rest.missing # None THEN rest
        ELSE [missing |-> None,
              text |-> SubSeq(template, 1, open - 1) \o context[name] \o rest.text]

\* Returned values and raised exceptions of the modelled functions
Return(value) == [raised |-> None, value |-> value]
Raise(type, message) == [raised |-> <<type, message>>, value |-> ""]

\* the preamble and the text separated by a line break only
append_preamble_one_newline(text, template, context) ==
    LET formatted == format_map(template, context)
    IN  IF formatted.missing # None
        THEN Raise("KeyError",
                   "Missing value '" \o formatted.missing[1] \o "' required by this template")
        ELSE Return(strip(formatted.text) \o "\n" \o text)

append_preamble(text, template, context) ==
    LET formatted == format_map(template, context)
    IN  IF formatted.missing # None
        THEN Raise("KeyError",
                   "Missing value '" \o formatted.missing[1] \o "' required by this template")
        ELSE LET rendered == strip(formatted.text)
             IN  IF rendered # ""
                 THEN Return(rendered \o "\n\n" \o text)
                 ELSE Return(text)

_placeholder_for(field) ==
    IF field.placeholder # None /\ field.placeholder # Some("")
    THEN field.placeholder[1]
    ELSE "<" \o replace(field.key, "_", " ") \o ">"

-----------------------------------------------------------------------------
(* License metadata definitions *)

FieldSpec(key, prompt_, default_factory, optional, placeholder) ==
    [key |-> key, prompt |-> prompt_, default_factory |-> default_factory,
     optional |-> optional, placeholder |-> placeholder]

ReplacementSpec(tokens, value) == [tokens |-> tokens, value |-> value]

LicenseSpec(key, name, filename, aliases, fields, replacements, preamble_template) ==
    [key |-> key, name |-> name, filename |-> filename, aliases |-> aliases,
     fields |-> fields, replacements |-> replacements,
     preamble_template |-> preamble_template, post_process |-> None]

LICENSE_SPECS == <<
    LicenseSpec("MIT", "MIT License", "MIT.txt",
        <<"mit", "mitlicense">>,
        <<
            FieldSpec("year", "Copyright year", Some("default_year"), FALSE, Some(PLACEHOLDER_YEAR)),
            FieldSpec("copyright_holder", "Copyright holder", Some("default_holder"), FALSE, Some(PLACEHOLDER_HOLDER)),
            FieldSpec("email", "Contact email (optional)", Some("default_email"), TRUE, Some(PLACEHOLDER_EMAIL))
        >>,
        <<
            ReplacementSpec(<<"<year>">>,
                Literal("year")),
            ReplacementSpec(<<"<copyright holders>">>,
                Callable("holder_with_email"))
        >>,
        None),
    LicenseSpec("AGPL-3.0-only", "GNU AGPL v3 (only)", "AGPL-3.0-only.txt",
        <<"agpl-3.0-only", "agpl3-only">>,
        <<
            FieldSpec("year", "Copyright year", Some("default_year"), FALSE, Some(PLACEHOLDER_YEAR)),
            FieldSpec("copyright_holder", "Copyright holder", Some("default_holder"), FALSE, Some(PLACEHOLDER_HOLDER)),
            FieldSpec("email", "Contact email (optional)", Some("default_email"), TRUE, Some(PLACEHOLDER_EMAIL)),
            FieldSpec("program_name", "Program name", Some("default_project_name"), FALSE, Some(PLACEHOLDER_PROGRAM)),
            FieldSpec("program_description", "Program description", None, TRUE, Some(PLACEHOLDER_DESCRIPTION)),
            FieldSpec("program_url", "Project URL (optional)", None, TRUE, Some(PLACEHOLDER_URL))
        >>,
        <<
            ReplacementSpec(<<"<year>">>,
                Literal("year")),
            ReplacementSpec(<<"<name of author>">>,
                Callable("holder_with_email")),
            ReplacementSpec(<<"<one line to give the program's name and a brief idea of what it does.>">>,
                Callable("build_program_tagline"))
        >>,
        None),
    LicenseSpec("LGPL-2.1-or-later", "GNU LGPL v2.1 (or later)", "LGPL-2.1-or-later.txt",
        <<"lgpl-2.1", "lgpl2.1", "lgpl-2.1+", "lgpl21-or-later">>,
        <<
            FieldSpec("year", "Copyright year", Some("default_year"), FALSE, Some(PLACEHOLDER_YEAR)),
            FieldSpec("copyright_holder", "Copyright holder", Some("default_holder"), FALSE, Some(PLACEHOLDER_HOLDER)),
            FieldSpec("email", "Contact email (optional)", Some("default_email"), TRUE, Some(PLACEHOLDER_EMAIL)),
            FieldSpec("program_name", "Library or program name", Some("default_project_name"), FALSE, Some(PLACEHOLDER_PROGRAM)),
            FieldSpec("program_description", "Program description", None, TRUE, Some(PLACEHOLDER_DESCRIPTION)),
            FieldSpec("program_url", "Project URL (optional)", None, TRUE, Some(PLACEHOLDER_URL))
        >>,
        <<
            ReplacementSpec(<<"     one line to give the library's name and an idea of what it does.\n     Copyright (C) year  name of author">>,
                Callable("lgpl21_notice_block"))
        >>,
        None),
    LicenseSpec("LGPL-2.1-only", "GNU LGPL v2.1 (only)", "LGPL-2.1-only.txt",
        <<"lgpl-2.1-only", "lgpl21">>,
        <<
            FieldSpec("year", "Copyright year", Some("default_year"), FALSE, Some(PLACEHOLDER_YEAR)),
            FieldSpec("copyright_holder", "Copyright holder", Some("default_holder"), FALSE, Some(PLACEHOLDER_HOLDER)),
            FieldSpec("email", "Contact email (optional)", Some("default_email"), TRUE, Some(PLACEHOLDER_EMAIL)),
            FieldSpec("program_name", "Library or program name", Some("default_project_name"), FALSE, Some(PLACEHOLDER_PROGRAM)),
            FieldSpec("program_description", "Program description", None, TRUE, Some(PLACEHOLDER_DESCRIPTION)),
            FieldSpec("program_url", "Project URL (optional)", None, TRUE, Some(PLACEHOLDER_URL))
        >>,
        <<
            ReplacementSpec(<<"     one line to give the library's name and an idea of what it does.\n     Copyright (C) year  name of author">>,
                Callable("lgpl21_notice_block"))
        >>,
        None),
    LicenseSpec("GPL-2.0-only", "GNU GPL v2 (only)", "GPL-2.0-only.txt",
        <<"gpl-2.0-only", "gpl2-only">>,
        <<
            FieldSpec("year", "Copyright year", Some("default_year"), FALSE, Some(PLACEHOLDER_YEAR)),
            FieldSpec("copyright_holder", "Copyright holder", Some("default_holder"), FALSE, Some(PLACEHOLDER_HOLDER)),
            FieldSpec("email", "Contact email (optional)", Some("default_email"), TRUE, Some(PLACEHOLDER_EMAIL)),
            FieldSpec("program_name", "Program name", Some("default_project_name"), FALSE, Some(PLACEHOLDER_PROGRAM)),
            FieldSpec("program_description", "Program description", None, TRUE, Some(PLACEHOLDER_DESCRIPTION)),
            FieldSpec("program_url", "Project URL (optional)", None, TRUE, Some(PLACEHOLDER_URL))
        >>,
        <<
            ReplacementSpec(<<"     one line to give the program's name and an idea of what it does. Copyright (C) yyyy name of author">>,
                Callable("gpl2_notice_line"))
        >>,
        None),
    LicenseSpec("GPL-3.0-only", "GNU GPL v3 (only)", "GPL-3.0-only.txt",
        <<"gpl-3.0-only", "gpl3-only">>,
        <<
            FieldSpec("year", "Copyright year", Some("default_year"), FALSE, Some(PLACEHOLDER_YEAR)),
            FieldSpec("copyright_holder", "Copyright holder", Some("default_holder"), FALSE, Some(PLACEHOLDER_HOLDER)),
            FieldSpec("email", "Contact email (optional)", Some("default_email"), TRUE, Some(PLACEHOLDER_EMAIL)),
            FieldSpec("program_name", "Program name", Some("default_project_name"), FALSE, Some(PLACEHOLDER_PROGRAM)),
            FieldSpec("program_description", "Program description", None, TRUE, Some(PLACEHOLDER_DESCRIPTION)),
            FieldSpec("program_url", "Project URL (optional)", None, TRUE, Some(PLACEHOLDER_URL))
        >>,
        <<
            ReplacementSpec(<<"<year>">>,
                Literal("year")),
            ReplacementSpec(<<"<name of author>">>,
                Callable("holder_with_email")),
            ReplacementSpec(<<"<program>">>,
                Literal("program_name")),
            ReplacementSpec(<<"<one line to give the program's name and a brief idea of what it does.>">>,
                Callable("build_program_tagline"))
        >>,
        None),
    LicenseSpec("CC0-1.0", "Creative Commons CC0 1.0 Universal", "CC0-1.0.txt",
        <<"cc0", "cc0-1.0", "creative-commons-zero">>,
        <<
            FieldSpec("project_name", "Project name", Some("default_project_name"), FALSE, Some(PLACEHOLDER_PROJECT)),
            FieldSpec("year", "Copyright year", Some("default_year"), FALSE, Some(PLACEHOLDER_YEAR)),
            FieldSpec("copyright_holder", "Author or holder", Some("default_holder"), FALSE, Some(PLACEHOLDER_HOLDER))
        >>,
        <<>>,
        Some("{project_name}\nCopyright (c) {year} {copyright_holder}")),
    LicenseSpec("BSL-1.0", "Boost Software License 1.0", "BSL-1.0.txt",
        <<"bsl", "boost", "boost-1.0">>,
        <<
            FieldSpec("year", "Copyright year", Some("default_year"), FALSE, Some(PLACEHOLDER_YEAR)),
            FieldSpec("copyright_holder", "Copyright holder", Some("default_holder"), FALSE, Some(PLACEHOLDER_HOLDER))
        >>,
        <<>>,
        Some("Copyright (c) {year} {copyright_holder}")),
    LicenseSpec("ISC", "ISC License", "ISC.txt",
        <<"isc">>,
        <<
            FieldSpec("year", "Copyright year", Some("default_year"), FALSE, Some(PLACEHOLDER_YEAR)),
            FieldSpec("copyright_holder", "Copyright holder", Some("default_holder"), FALSE, Some(PLACEHOLDER_HOLDER))
        >>,
        <<>>,
        Some("Copyright (c) {year} {copyright_holder}")),
    LicenseSpec("Apache-2.0", "Apache License 2.0", "Apache-2.0.txt",
        <<"apache", "apache2", "apache-2", "apache20">>,
        <<
            FieldSpec("year", "Copyright year", Some("default_year"), FALSE, Some(PLACEHOLDER_YEAR)),
            FieldSpec("copyright_holder", "Copyright holder", Some("default_holder"), FALSE, Some(PLACEHOLDER_HOLDER)),
            FieldSpec("email", "Contact email (optional)", Some("default_email"), TRUE, Some(PLACEHOLDER_EMAIL))
        >>,
        <<
            ReplacementSpec(<<"[yyyy]">>,
                Literal("year")),
            ReplacementSpec(<<"[name of copyright owner]">>,
                Callable("holder_with_email"))
        >>,
        None),
    LicenseSpec("BSD-3-Clause", "BSD 3-Clause License", "BSD-3-Clause.txt",
        <<"bsd3", "bsd-3", "bsd-3-clause">>,
        <<
            FieldSpec("year", "Copyright year", Some("default_year"), FALSE, Some(PLACEHOLDER_YEAR)),
            FieldSpec("owner", "Copyright holder", Some("default_holder"), FALSE, Some(PLACEHOLDER_OWNER))
        >>,
        <<
            ReplacementSpec(<<"<year>">>,
                Literal("year")),
            ReplacementSpec(<<"<owner>">>,
                Callable("holder_with_email_owner"))
        >>,
        None),
    LicenseSpec("BSD-2-Clause", "BSD 2-Clause License", "BSD-2-Clause.txt",
        <<"bsd2", "bsd-2", "simplifiedbsd">>,
        <<
            FieldSpec("year", "Copyright year", Some("default_year"), FALSE, Some(PLACEHOLDER_YEAR)),
            FieldSpec("owner", "Copyright holder", Some("default_holder"), FALSE, Some(PLACEHOLDER_OWNER))
        >>,
        <<
            ReplacementSpec(<<"<year>">>,
                Literal("year")),
            ReplacementSpec(<<"<owner>">>,
                Callable("holder_with_email_owner"))
        >>,
        None),
    LicenseSpec("GPL-3.0-or-later", "GNU GPL v3 (or later)", "GPL-3.0-or-later.txt",
        <<"gpl3", "gpl-3", "gplv3", "gpl-3.0">>,
        <<
            FieldSpec("year", "Copyright year", Some("default_year"), FALSE, Some(PLACEHOLDER_YEAR)),
            FieldSpec("copyright_holder", "Copyright holder", Some("default_holder"), FALSE, Some(PLACEHOLDER_HOLDER)),
            FieldSpec("email", "Contact email (optional)", Some("default_email"), TRUE, Some(PLACEHOLDER_EMAIL)),
            FieldSpec("program_name", "Program name", Some("default_project_name"), FALSE, Some(PLACEHOLDER_PROGRAM)),
            FieldSpec("program_description", "Program description", None, TRUE, Some(PLACEHOLDER_DESCRIPTION)),
            FieldSpec("program_url", "Project URL (optional)", None, TRUE, Some(PLACEHOLDER_URL))
        >>,
        <<
            ReplacementSpec(<<"<year>">>,
                Literal("year")),
            ReplacementSpec(<<"<name of author>">>,
                Callable("holder_with_email")),
            ReplacementSpec(<<"<program>">>,
                Literal("program_name")),
            ReplacementSpec(<<"<one line to give the program's name and a brief idea of what it does.>">>,
                Callable("build_program_tagline"))
        >>,
        None),
    LicenseSpec("GPL-2.0-or-later", "GNU GPL v2 (or later)", "GPL-2.0-or-later.txt",
        <<"gpl2", "gpl-2", "gplv2", "gpl-2.0">>,
        <<
            FieldSpec("year", "Copyright year", Some("default_year"), FALSE, Some(PLACEHOLDER_YEAR)),
            FieldSpec("copyright_holder", "Copyright holder", Some("default_holder"), FALSE, Some(PLACEHOLDER_HOLDER)),
            FieldSpec("email", "Contact email (optional)", Some("default_email"), TRUE, Some(PLACEHOLDER_EMAIL)),
            FieldSpec("program_name", "Program name", Some("default_project_name"), FALSE, Some(PLACEHOLDER_PROGRAM)),
            FieldSpec("program_description", "Program description", None, TRUE, Some(PLACEHOLDER_DESCRIPTION)),
            FieldSpec("program_url", "Project URL (optional)", None, TRUE, Some(PLACEHOLDER_URL))
        >>,
        <<
            ReplacementSpec(<<"     one line to give the program's name and an idea of what it does. Copyright (C) yyyy name of author">>,
                Callable("gpl2_notice_line"))
        >>,
        None),
    LicenseSpec("LGPL-3.0-or-later", "GNU LGPL v3 (or later)", "LGPL-3.0-or-later.txt",
        <<"lgpl3", "lgpl-3", "lgplv3">>,
        <<
            FieldSpec("year", "Copyright year", Some("default_year"), FALSE, Some(PLACEHOLDER_YEAR)),
            FieldSpec("copyright_holder", "Copyright holder", Some("default_holder"), FALSE, Some(PLACEHOLDER_HOLDER)),
            FieldSpec("email", "Contact email (optional)", Some("default_email"), TRUE, Some(PLACEHOLDER_EMAIL)),
            FieldSpec("program_name", "Program or library name", Some("default_project_name"), FALSE, Some(PLACEHOLDER_PROGRAM)),
            FieldSpec("program_description", "Program description", None, TRUE, Some(PLACEHOLDER_DESCRIPTION)),
            FieldSpec("program_url", "Project URL (optional)", None, TRUE, Some(PLACEHOLDER_URL))
        >>,
        <<
            ReplacementSpec(<<"<year>">>,
                Literal("year")),
            ReplacementSpec(<<"<name of author>">>,
                Callable("holder_with_email")),
            ReplacementSpec(<<"<program>">>,
                Literal("program_name")),
            ReplacementSpec(<<"<one line to give the program's name and a brief idea of what it does.>">>,
                Callable("build_program_tagline"))
        >>,
        None),
    LicenseSpec("AGPL-3.0-or-later", "GNU AGPL v3 (or later)", "AGPL-3.0-or-later.txt",
        <<"agpl3", "agpl-3", "agplv3">>,
        <<
            FieldSpec("year", "Copyright year", Some("default_year"), FALSE, Some(PLACEHOLDER_YEAR)),
            FieldSpec("copyright_holder", "Copyright holder", Some("default_holder"), FALSE, Some(PLACEHOLDER_HOLDER)),
            FieldSpec("email", "Contact email (optional)", Some("default_email"), TRUE, Some(PLACEHOLDER_EMAIL)),
            FieldSpec("program_name", "Program name", Some("default_project_name"), FALSE, Some(PLACEHOLDER_PROGRAM)),
            FieldSpec("program_description", "Program description", None, TRUE, Some(PLACEHOLDER_DESCRIPTION)),
            FieldSpec("program_url", "Project URL (optional)", None, TRUE, Some(PLACEHOLDER_URL))
        >>,
        <<
            ReplacementSpec(<<"<year>">>,
                Literal("year")),
            ReplacementSpec(<<"<name of author>">>,
                Callable("holder_with_email")),
            ReplacementSpec(<<"<one line to give the program's name and a brief idea of what it does.>">>,
                Callable("build_program_tagline"))
        >>,
        None),
    LicenseSpec("MPL-2.0", "Mozilla Public License 2.0", "MPL-2.0.txt",
        <<"mpl", "mpl2">>,
        <<
            FieldSpec("project_name", "Project name", Some("default_project_name"), FALSE, Some(PLACEHOLDER_PROJECT)),
            FieldSpec("year", "Copyright year", Some("default_year"), FALSE, Some(PLACEHOLDER_YEAR)),
            FieldSpec("copyright_holder", "Copyright holder", Some("default_holder"), FALSE, Some(PLACEHOLDER_HOLDER))
        >>,
        <<>>,
        Some("{project_name}\nCopyright (c) {year} {copyright_holder}")),
    LicenseSpec("EPL-2.0", "Eclipse Public License 2.0", "EPL-2.0.txt",
        <<"epl", "epl2">>,
        <<
            FieldSpec("project_name", "Project name", Some("default_project_name"), FALSE, Some(PLACEHOLDER_PROJECT)),
            FieldSpec("year", "Copyright year", Some("default_year"), FALSE, Some(PLACEHOLDER_YEAR)),
            FieldSpec("copyright_holder", "Copyright holder", Some("default_holder"), FALSE, Some(PLACEHOLDER_HOLDER))
        >>,
        <<>>,
        Some("{project_name}\nCopyright (c) {year} {copyright_holder}")),
    LicenseSpec("Unlicense", "The Unlicense", "Unlicense.txt",
        <<"unlicense", "public-domain">>,
        <<
            FieldSpec("project_name", "Project name", Some("default_project_name"), FALSE, Some(PLACEHOLDER_PROJECT)),
            FieldSpec("year", "Copyright year", Some("default_year"), FALSE, Some(PLACEHOLDER_YEAR)),
            FieldSpec("copyright_holder", "Author or holder", Some("default_holder"), FALSE, Some(PLACEHOLDER_HOLDER))
        >>,
        <<>>,
        Some("{project_name}\nCopyright (c) {year} {copyright_holder}")),
    LicenseSpec("WTFPL", "Do What The F*ck You Want To Public License", "WTFPL.txt",
        <<"wtfpl">>,
        <<
            FieldSpec("project_name", "Project name", Some("default_project_name"), FALSE, Some(PLACEHOLDER_PROJECT)),
            FieldSpec("year", "Copyright year", Some("default_year"), FALSE, Some(PLACEHOLDER_YEAR)),
            FieldSpec("copyright_holder", "Author", Some("default_holder"), FALSE, Some(PLACEHOLDER_HOLDER))
        >>,
        <<>>,
        Some("{project_name}\nCopyright (c) {year} {copyright_holder}"))
>>

\* the assignments LICENSE_MAP[key] = spec in execution order: <<pass, i, j>>
\* is pass 1 (the dict comprehension over spec.key, j = 0) or pass 2 (the
\* loop over the aliases, j the position of the alias) for LICENSE_SPECS[i]
Registrations ==
    {<<1, i, 0>> : i \in 1..Len(LICENSE_SPECS)}
        \cup UNION {{<<2, i, j>> : j \in 1..Len(LICENSE_SPECS[i].aliases)} :
                        i \in 1..Len(LICENSE_SPECS)}

RegisteredKey ==
    [r \in Registrations |->
        IF r[1] = 1 THEN normalize_license_key(LICENSE_SPECS[r[2]].key)
        ELSE normalize_license_key(LICENSE_SPECS[r[2]].aliases[r[3]])]

Before(r, q) ==
    \/ r[1] < q[1]
    \/ r[1] = q[1] /\ r[2] < q[2]
    \/ r[1] = q[1] /\ r[2] = q[2] /\ r[3] <= q[3]

\* the first assignment to key k
FirstRegistration(k) ==
    LET same == {r \in Registrations : RegisteredKey[r] = k}
    IN  CHOOSE r \in same : \A q \in same : Before(r, q)

\* the last assignment to key k
LastRegistration(k) ==
    LET same == {r \in Registrations : RegisteredKey[r] = k}
    IN  CHOOSE r \in same : \A q \in same : Before(q, r)

\* the keys of LICENSE_MAP
RegisteredKeys == {RegisteredKey[r] : r \in Registrations}

\* a dict keeps the value of the last assignment to each key
LICENSE_MAP ==
    [k \in RegisteredKeys |->
        LICENSE_SPECS[LastRegistration(k)[2]]]

\* resolve_spec naming the normalized key in its error
resolve_spec_naming_key(name) ==
    LET key == normalize_license_key(name)
    IN  IF key \notin DOMAIN LICENSE_MAP
        THEN Raise("KeyError", "Unsupported license '" \o key
                        \o "'. Use --list to see supported identifiers.")
        ELSE Return(LICENSE_MAP[key])

resolve_spec(name) ==
    LET key == normalize_license_key(name)
    IN  IF key \notin DOMAIN LICENSE_MAP
        THEN Raise("KeyError", "Unsupported license '" \o name
                        \o "'. Use --list to see supported identifiers.")
        ELSE Return(LICENSE_MAP[key])

-----------------------------------------------------------------------------
(* Rendering *)

\* load_license_text: resource is <<>> when the template file is missing
load_license_text(s, resource) ==
    IF resource = None
    THEN Raise("FileNotFoundError", "Template file not found: " \o s.filename)
    ELSE Return(resource[1])

\* a newline appended whatever the text ends with
AlwaysNewline(text) == text \o "\n"

\* if not text.endswith("\n"): text += "\n"
EnsureNewline(text) == IF ~endswith(text, "\n") THEN text \o "\n" ELSE text

\* render_license up to the trailing-newline step (lines 264-268)
RenderBody(s, context, resource) ==
    LET loaded == load_license_text(s, resource)
        replaced == IF s.replacements # <<>>
                    THEN apply_replacements(loaded.value, s.replacements, context)
                    ELSE loaded.value
    IN  IF loaded.raised # None THEN loaded
        ELSE IF s.preamble_template # None /\ s.preamble_template # Some("")
        THEN append_preamble(replaced, s.preamble_template[1], context)
        ELSE Return(replaced)

render_license(s, context, resource) ==
    LET body == RenderBody(s, context, resource)
    IN  IF body.raised # None THEN body
        ELSE Return(EnsureNewline(body.value))

-----------------------------------------------------------------------------
(* Command line *)

\* args.<flag>: None when the option was not given
Flag(opts, name) == GetOpt(opts.flags, name)

\* push(value, *keys) of build_cli_overrides
RECURSIVE PutAll(_, _, _)
PutAll(context, keys, value) ==
    IF keys = <<>> THEN context
    ELSE PutAll(Put(context, Head(keys), value), Tail(keys), value)

push(context, value, keys) ==
    IF value = None THEN context
    ELSE IF strip(value[1]) = "" THEN context
    ELSE PutAll(context, keys, strip(value[1]))

\* the --set loop of build_cli_overrides
RECURSIVE ApplySet(_, _)
ApplySet(context, assignments) ==
    IF assignments = <<>> THEN Return(context)
    ELSE LET assignment == Head(assignments)
             eq == find(assignment, "=")
             key == strip(SubSeq(assignment, 1, eq - 1))
             value == SubSeq(assignment, eq + 1, Len(assignment))
         IN  IF ~Contains(assignment, "=")
             THEN Raise("ValueError", "Invalid --set value '" \o assignment
                            \o "'. Expected KEY=VALUE.")
             ELSE IF key = ""
             THEN Raise("ValueError", "Override key cannot be empty.")
             ELSE ApplySet(Put(context, key, strip(value)), Tail(assignments))

\* build_cli_overrides with the direct flags pushed after the --set loop
build_cli_overrides_flags_last(opts) ==
    LET applied == ApplySet(EmptyContext, opts.set)
        o1 == push(applied.value, Flag(opts, "year"), <<"year">>)
        o2 == push(o1, Flag(opts, "holder"), <<"copyright_holder", "owner">>)
        o3 == push(o2, Flag(opts, "owner"), <<"owner">>)
        o4 == push(o3, Flag(opts, "email"), <<"email">>)
        o5 == push(o4, Flag(opts, "program_name"), <<"program_name">>)
        o6 == push(o5, Flag(opts, "program_description"), <<"program_description">>)
        o7 == push(o6, Flag(opts, "program_url"), <<"program_url">>)
        o8 == push(o7, Flag(opts, "project_name"), <<"project_name">>)
    IN  IF applied.raised # None THEN applied ELSE Return(o8)

build_cli_overrides(opts) ==
    LET o1 == push(EmptyContext, Flag(opts, "year"), <<"year">>)
        o2 == push(o1, Flag(opts, "holder"), <<"copyright_holder", "owner">>)
        o3 == push(o2, Flag(opts, "owner"), <<"owner">>)
        o4 == push(o3, Flag(opts, "email"), <<"email">>)
        o5 == push(o4, Flag(opts, "program_name"), <<"program_name">>)
        o6 == push(o5, Flag(opts, "program_description"), <<"program_description">>)
        o7 == push(o6, Flag(opts, "program_url"), <<"program_url">>)
        o8 == push(o7, Flag(opts, "project_name"), <<"project_name">>)
    IN  ApplySet(o8, opts.set)

-----------------------------------------------------------------------------
(* Bounds and input sets *)

\* lines a user types before the terminal only yields end-of-input
MaxLines == 1

\* answers typed at a prompt
Lines == {"", " Bob "}

\* identity-provider states: environment variables, git config, cwd, clock
Environments == {
    [environ |-> EmptyContext, git |-> EmptyContext, cwd |-> "/", year |-> 2026],
    [environ |-> EmptyContext,
     git |-> [k \in {"user.name", "user.email"} |->
                IF k = "user.name" THEN "Ann Lee\n" ELSE "ann@x.io\n"],
     cwd |-> "/home/ann/proj", year |-> 2026],
    [environ |-> [USER |-> " ann "], git |-> [k \in {"user.name"} |-> "Ann Lee\n"],
     cwd |-> "/", year |-> 2026],
    [environ |-> [AUTHOR_EMAIL |-> "e@x.io"], git |-> EmptyContext,
     cwd |-> "/srv/app", year |-> 2026]
}

NoSpec == None
NoArgs == None
NoEnvironment == None

\* what the log records of one run
EmptyLog == [factories |-> {}, prompted |-> {}, blank |-> {}, reads |-> 0,
             eofs |-> 0, required |-> 0, did |-> {}]

InMain == args # NoArgs

-----------------------------------------------------------------------------
(* collect_field_values *)

\* values after the overrides loop (lines 224-229)
Prefill(ov) ==
    IF ov = None THEN EmptyContext
    ELSE LET kept == {k \in DOMAIN ov[1] : ensure_value(Some(ov[1][k])) # ""}
         IN  [k \in kept |-> ensure_value(Some(ov[1][k]))]

CurrentField == spec.fields[idx]

\* the candidate without the placeholder fallback
CandidateDefaultOnly(field, default) == default

\* the candidate with the placeholder fallback taken by optional fields too
CandidateIgnoringOptional(field, default) ==
    IF default # "" THEN default ELSE _placeholder_for(field)

\* default or ("" if field.optional else placeholder) (lines 238 and 242)
Candidate(field, default) ==
    IF default # "" THEN default
    ELSE IF field.optional THEN "" ELSE _placeholder_for(field)

CollectStart ==
    /\ pc = "collect_field_values"
    /\ values' = Prefill(overrides)
    /\ idx' = 1
    /\ pc' = "field"
    /\ log' = [log EXCEPT !.did = @ \cup {"collect"}]
    /\ UNCHANGED <<args, spec, skip_prompts, overrides, prompt, prompt_default,
                   stdin, identity, storage, output_text, error, stdout,
                   stderr, fs, exit_code>>

\* one iteration of the for loop up to the first input() call (lines 230-245)
FieldStep ==
    /\ pc = "field"
    /\ idx <= Len(spec.fields)
    /\ LET field == CurrentField
           prefilled == ensure_value(Some(Get(values, field.key, "")))
           default == ensure_value(CallFactory(field.default_factory, identity, values))
           candidate == Candidate(field, default)
       IN  IF prefilled # ""
           THEN /\ values' = Put(values, field.key, prefilled)
                /\ idx' = idx + 1
                /\ UNCHANGED <<pc, prompt, prompt_default, log>>
           ELSE IF skip_prompts
           THEN /\ values' = Put(values, field.key, candidate)
                /\ idx' = idx + 1
                /\ log' = [log EXCEPT !.factories =
                            IF field.default_factory # None
                            THEN @ \cup {field.key} ELSE @]
                /\ UNCHANGED <<pc, prompt, prompt_default>>
           ELSE /\ prompt_default' = candidate
                /\ prompt' = (IF candidate # ""
                              THEN field.prompt \o " [" \o candidate \o "]"
                              ELSE field.prompt) \o ": "
                /\ pc' = "input"
                /\ log' = [log EXCEPT !.factories =
                            IF field.default_factory # None
                            THEN @ \cup {field.key} ELSE @]
                /\ UNCHANGED <<values, idx>>
    /\ UNCHANGED <<args, spec, skip_prompts, overrides, stdin, identity, storage,
                   output_text, error, stdout, stderr, fs, exit_code>>

\* one iteration of the while loop: input(prompt) answers line, or raises
\* EOFError when line is None (lines 246-257)
Answer(line) ==
    LET field == CurrentField
        typed == strip(IF line = None THEN "" ELSE line[1])
        user_input == IF typed = "" /\ prompt_default # "" THEN prompt_default ELSE typed
    IN  /\ log' = [log EXCEPT !.prompted = @ \cup {field.key},
                              !.blank = IF typed = "" THEN @ \cup {field.key} ELSE @,
                              !.reads = @ + 1,
                              !.eofs = IF line = None THEN @ + 1 ELSE @,
                              !.required = IF user_input # "" \/ field.optional
                                           THEN @ ELSE @ + 1]
        /\ IF user_input # "" \/ field.optional
           THEN /\ values' = Put(values, field.key, user_input)
                /\ idx' = idx + 1
                /\ pc' = "field"
                /\ UNCHANGED stderr
           ELSE /\ stderr' = Append(stderr, "This field is required.")
                /\ UNCHANGED <<values, idx, pc>>

Input ==
    /\ pc = "input"
    /\ \/ /\ Answer(None)
          /\ UNCHANGED stdin
       \/ /\ stdin < MaxLines
          /\ \E line \in Lines : Answer(Some(line))
          /\ stdin' = stdin + 1
    /\ UNCHANGED <<args, spec, skip_prompts, overrides, prompt, prompt_default,
                   identity, storage, output_text, error, stdout, fs, exit_code>>

\* after the loop: post_process, return values (lines 258-260)
CollectReturn ==
    /\ pc = "field"
    /\ idx > Len(spec.fields)
    /\ pc' = IF InMain THEN "render_license" ELSE "returned"
    /\ UNCHANGED <<args, spec, skip_prompts, overrides, values, idx, prompt,
                   prompt_default, stdin, identity, storage, output_text, error,
                   stdout, stderr, fs, exit_code, log>>

\* overrides mappings handed to collect_field_values by a caller
OverrideKeys == {"year", "copyright_holder", "owner", "email", "program_name",
                 "program_description", "program_url", "project_name", "custom"}

OverrideValues == {" ", "Zed", " Zed\n"}

ResolverOverrides ==
    {None, Some(EmptyContext)}
        \cup {Some([k \in {key} |-> v]) : key \in OverrideKeys, v \in OverrideValues}
        \cup {Some([k \in {"year", "copyright_holder"} |->
                        IF k = "year" THEN "2024" ELSE v]) : v \in OverrideValues}

ResolverInitOn(modes, mappings) ==
    /\ pc = "collect_field_values"
    /\ args = NoArgs
    /\ spec \in {LICENSE_SPECS[i] : i \in 1..Len(LICENSE_SPECS)}
    /\ skip_prompts \in modes
    /\ overrides \in mappings
    /\ values = EmptyContext
    /\ idx = 0
    /\ prompt = ""
    /\ prompt_default = ""
    /\ stdin = 0
    /\ identity \in Environments
    /\ storage = None
    /\ output_text = ""
    /\ error = None
    /\ stdout = ""
    /\ stderr = <<>>
    /\ fs = [before |-> None, now |-> None]
    /\ exit_code = None
    /\ log = EmptyLog

ResolverInit == ResolverInitOn(BOOLEAN, ResolverOverrides)

ResolverNext == CollectStart \/ FieldStep \/ Input \/ CollectReturn

ResolverSpec == ResolverInit /\ [][ResolverNext]_vars

\* The overrides of the interactive runs followed to their return: none, an
\* empty mapping, a blank value, and values for one or two fields
PromptOverrides ==
    {None, Some(EmptyContext),
     Some([k \in {"copyright_holder"} |-> " "]),
     Some([k \in {"year"} |-> "2024"]),
     Some([k \in {"year", "copyright_holder"} |-> IF k = "year" THEN "2024" ELSE "Zed"])}

PromptInit == ResolverInitOn({FALSE}, PromptOverrides)

\* collect_field_values called with skip_prompts False and run to its return:
\* every step is taken when it is enabled
ResolverFairSpec == PromptInit /\ [][ResolverNext]_vars /\ WF_vars(ResolverNext)

-----------------------------------------------------------------------------
(* Template storage: one SPDX body per spec, holding the tokens its        *)
(* replacement rules target                                                *)

Lit(text) == [token |-> FALSE, text |-> text]
Tok(text) == [token |-> TRUE, text |-> text]

RECURSIVE AllTokens(_)
AllTokens(replacements) ==
    IF replacements = <<>> THEN <<>>
    ELSE Head(replacements).tokens \o AllTokens(Tail(replacements))

RECURSIVE TokenLines(_)
TokenLines(tokens) ==
    IF tokens = <<>> THEN <<>>
    ELSE <<Lit("* "), Tok(Head(tokens)), Lit("\n")>> \o TokenLines(Tail(tokens))

\* a body as literal text interleaved with the tokens of the spec, every
\* token occurring at least once and the first one twice
TemplatePieces(s) ==
    LET tokens == AllTokens(s.replacements)
    IN  <<Lit(s.name \o "\n\n")>>
            \o TokenLines(tokens)
            \o <<Lit("Permission is hereby granted.\n")>>
            \o (IF tokens # <<>> THEN <<Lit("See "), Tok(tokens[1]), Lit(".\n")>> ELSE <<>>)
            \o <<Lit("End of terms")>>

RECURSIVE Concat(_)
Concat(pieces) ==
    IF Len(pieces) = 0 THEN ""
    ELSE IF Len(pieces) = 1 THEN pieces[1].text
    ELSE LET half == Len(pieces) \div 2
         IN  Concat(SubSeq(pieces, 1, half)) \o Concat(SubSeq(pieces, half + 1, Len(pieces)))

TemplateBody(s) == Concat(TemplatePieces(s))

\* what spec.template_resource() holds: the body when the file is there
Templates(s, is_file) == IF is_file THEN Some(TemplateBody(s)) ELSE None

-----------------------------------------------------------------------------
(* main *)

Exit(code) == Some(code)

\* str(exc) as main prints it
ExcStr(exc) == IF exc[1] = "KeyError" THEN repr(exc[2]) ELSE exc[2]

Did(step) == [log EXCEPT !.did = @ \cup {step}]

\* license identifiers given on the command line
LicenseArgs ==
    {None, Some("")}
        \cup {Some(LICENSE_SPECS[i].key) : i \in 1..Len(LICENSE_SPECS)}
        \cup {Some("apache2"), Some("GPL-4.0"), Some("no\\such"), Some("---")}

\* override options given on the command line: direct flags and --set
Opts(flags, set) == [flags |-> flags, set |-> set]

Flags(names, vals) == [k \in {names[i] : i \in DOMAIN names} |->
                            vals[CHOOSE i \in DOMAIN names : names[i] = k]]

FlagSets == {
    Flags(<<"year">>, <<" ">>),
    Flags(<<"year", "holder">>, <<"2024", "Jane Doe">>),
    Flags(<<"email">>, <<" j@d.io ">>),
    Flags(<<"program_name">>, <<"Foo">>),
    Flags(<<"owner", "program_description", "program_url", "project_name">>,
          <<"Acme", "does x.", "http://x", "Proj">>)}

SetTokens == {"year=1999", "year=", "custom=Value", " copyright_holder = A=B ",
              "novalue", "=x"}

ArgvOverrides ==
    {Opts(EmptyContext, <<>>)}
        \cup {Opts(flags, <<>>) : flags \in FlagSets}
        \cup {Opts(EmptyContext, <<token>>) : token \in SetTokens}
        \cup {Opts(Flags(<<"year">>, <<"2024">>), <<"year=1999">>),
              Opts(Flags(<<"year">>, <<"2024">>), <<"year=">>),
              Opts(Flags(<<"email">>, <<" j@d.io ">>), <<"email= ">>),
              Opts(EmptyContext, <<"year=1999", "year= 2001 ">>),
              Opts(EmptyContext, <<"year=1999", "novalue">>)}

\* parse_args up to resolve_spec (lines 1028-1039)
MainStart ==
    /\ pc = "main"
    /\ \E list \in BOOLEAN, license \in LicenseArgs :
        /\ args' = [list |-> list, license |-> license]
        /\ IF list
           THEN /\ log' = Did("list")
                /\ exit_code' = Exit(0)
                /\ pc' = "done"
                /\ UNCHANGED <<spec, error, stderr>>
           ELSE IF license = None \/ license = Some("")
           THEN /\ stderr' = Append(stderr,
                    "No license specified. Use --list to see available options.")
                /\ exit_code' = Exit(1)
                /\ pc' = "done"
                /\ UNCHANGED <<spec, error, log>>
           ELSE LET resolved == resolve_spec(license[1])
                IN  IF resolved.raised # None
                    THEN /\ error' = resolved.raised
                         /\ stderr' = Append(stderr, ExcStr(resolved.raised))
                         /\ exit_code' = Exit(1)
                         /\ pc' = "done"
                         /\ log' = Did("resolve")
                         /\ UNCHANGED spec
                    ELSE /\ spec' = resolved.value
                         /\ pc' = "build_cli_overrides"
                         /\ log' = Did("resolve")
                         /\ UNCHANGED <<error, stderr, exit_code>>
    /\ UNCHANGED <<skip_prompts, overrides, values, idx, prompt, prompt_default,
                   stdin, identity, storage, output_text, stdout, fs>>

\* prompts skipped only when standard input is not a terminal
SkipPromptsOffTerminal(defaults, isatty) == ~isatty

\* bool(args.defaults or not sys.stdin.isatty()) (line 1040)
SkipPrompts(defaults, isatty) == defaults \/ ~isatty

\* skip_prompts and build_cli_overrides (lines 1040-1045), the override
\* options of the command line being one of options
MainOverridesOn(options) ==
    /\ pc = "build_cli_overrides"
    /\ \E defaults \in BOOLEAN, isatty \in BOOLEAN, opts \in options :
        LET built == build_cli_overrides(opts)
        IN  /\ args' = [list |-> args.list, license |-> args.license,
                        defaults |-> defaults, flags |-> opts.flags, set |-> opts.set]
            /\ skip_prompts' = SkipPrompts(defaults, isatty)
            /\ log' = Did("overrides")
            /\ IF built.raised # None
               THEN /\ error' = built.raised
                    /\ stderr' = Append(stderr, ExcStr(built.raised))
                    /\ exit_code' = Exit(1)
                    /\ pc' = "done"
                    /\ UNCHANGED overrides
               ELSE /\ overrides' = Some(built.value)
                    /\ pc' = "collect_field_values"
                    /\ UNCHANGED <<error, stderr, exit_code>>
    /\ UNCHANGED <<spec, values, idx, prompt, prompt_default, stdin, identity,
                   storage, output_text, stdout, fs>>

MainOverrides == MainOverridesOn(ArgvOverrides)

\* render_license(spec, context) on the template resource given
RenderOn(resource) ==
    LET rendered == render_license(spec, values, resource)
    IN  /\ storage' = resource
        /\ output_text' = rendered.value
        /\ error' = rendered.raised

\* render_license(spec, context) on whatever the template resource holds:
\* no file, or a body
RenderLicense ==
    /\ pc = "render_license"
    /\ \E is_file \in BOOLEAN : RenderOn(Templates(spec, is_file))
    /\ pc' = IF InMain THEN "write" ELSE "returned"
    /\ log' = Did("render")
    /\ UNCHANGED <<args, spec, skip_prompts, overrides, values, idx, prompt,
                   prompt_default, stdin, identity, stdout, stderr, fs, exit_code>>

OutputPath == "LICENSE"

OldFile == "old text\n"

\* the output file written whether it was there or not
FileOverwritten(existing, force, text) == Some(text)

\* the output file after lines 1057-1061: as it was when main refuses to
\* overwrite it, else holding the text
FileAfter(existing, force, text) ==
    IF existing # None /\ ~force THEN existing ELSE Some(text)

\* the render failure handler and the output step (lines 1053-1064);
\* path.exists() finds the output file there or not, and path.write_text
\* either writes the file or raises OSError, which main does not catch
MainWrite ==
    /\ pc = "write"
    /\ IF error # None
       THEN /\ stderr' = Append(stderr, "Failed to render license: " \o ExcStr(error))
            /\ exit_code' = Exit(1)
            /\ pc' = "done"
            /\ UNCHANGED <<args, stdout, fs, error, log>>
       ELSE \E output \in {None, Some(OutputPath)}, force \in BOOLEAN :
            /\ args' = [list |-> args.list, license |-> args.license,
                        defaults |-> args.defaults, flags |-> args.flags,
                        set |-> args.set, output |-> output, force |-> force]
            /\ IF output # None
               THEN \E existing \in {None, Some(OldFile)}, writable \in BOOLEAN :
                    IF existing # None /\ ~force
                    THEN /\ stderr' = Append(stderr,
                                "Refusing to overwrite existing file: " \o output[1]
                                    \o ". Use --force to override.")
                         /\ fs' = [before |-> existing,
                                   now |-> FileAfter(existing, force, output_text)]
                         /\ exit_code' = Exit(1)
                         /\ pc' = "done"
                         /\ UNCHANGED <<stdout, error, log>>
                    ELSE IF writable
                    THEN /\ fs' = [before |-> existing,
                                   now |-> FileAfter(existing, force, output_text)]
                         /\ exit_code' = Exit(0)
                         /\ pc' = "done"
                         /\ log' = Did("write")
                         /\ UNCHANGED <<stdout, stderr, error>>
                    ELSE /\ fs' = [before |-> existing, now |-> existing]
                         /\ error' = <<"OSError", output[1]>>
                         /\ pc' = "raised"
                         /\ UNCHANGED <<stdout, stderr, exit_code, log>>
               ELSE /\ stdout' = stdout \o output_text
                    /\ exit_code' = Exit(0)
                    /\ pc' = "done"
                    /\ log' = Did("write")
                    /\ UNCHANGED <<stderr, fs, error>>
    /\ UNCHANGED <<spec, skip_prompts, overrides, values, idx, prompt,
                   prompt_default, stdin, identity, storage, output_text>>

Init ==
    /\ pc = "main"
    /\ args = [argv |-> "unparsed"]
    /\ spec = NoSpec
    /\ skip_prompts = FALSE
    /\ overrides = None
    /\ values = EmptyContext
    /\ idx = 0
    /\ prompt = ""
    /\ prompt_default = ""
    /\ stdin = 0
    /\ identity \in Environments
    /\ storage = None
    /\ output_text = ""
    /\ error = None
    /\ stdout = ""
    /\ stderr = <<>>
    /\ fs = [before |-> None, now |-> None]
    /\ exit_code = None
    /\ log = EmptyLog

Next ==
    \/ MainStart
    \/ MainOverrides
    \/ CollectStart
    \/ FieldStep
    \/ Input
    \/ CollectReturn
    \/ RenderLicense
    \/ MainWrite

Spec == Init /\ [][Next]_vars

\* main on a command line without override options, run to completion:
\* every step is taken when it is enabled
PlainOverrides == MainOverridesOn({Opts(EmptyContext, <<>>)})

PlainNext ==
    \/ MainStart
    \/ PlainOverrides
    \/ CollectStart
    \/ FieldStep
    \/ Input
    \/ CollectReturn
    \/ RenderLicense
    \/ MainWrite

PlainSpec == Init /\ [][PlainNext]_vars /\ WF_vars(PlainNext)

-----------------------------------------------------------------------------
(* resolve_spec called on its own *)

RegisteredSpecs == {LICENSE_SPECS[i] : i \in 1..Len(LICENSE_SPECS)}

\* every key and alias of the registry, spelling variants and unknown names
Identifiers ==
    {s.key : s \in RegisteredSpecs}
        \cup UNION {{s.aliases[j] : j \in 1..Len(s.aliases)} : s \in RegisteredSpecs}
        \cup {"MIT-License", "GPL 3.0 Only", "gpl3only", "Apache 2.0", "lgpl 2.1",
              "GPL-4.0", "lgpl", "---", "", "no\\such", "it's \"x\""}

RegistryInit ==
    /\ pc = "resolve_spec"
    /\ \E name \in Identifiers : args = [license |-> Some(name)]
    /\ spec = NoSpec
    /\ skip_prompts = FALSE
    /\ overrides = None
    /\ values = EmptyContext
    /\ idx = 0
    /\ prompt = ""
    /\ prompt_default = ""
    /\ stdin = 0
    /\ identity = NoEnvironment
    /\ storage = None
    /\ output_text = ""
    /\ error = None
    /\ stdout = ""
    /\ stderr = <<>>
    /\ fs = [before |-> None, now |-> None]
    /\ exit_code = None
    /\ log = EmptyLog

ResolveSpec ==
    /\ pc = "resolve_spec"
    /\ LET resolved == resolve_spec(args.license[1])
       IN  IF resolved.raised # None
           THEN error' = resolved.raised /\ UNCHANGED spec
           ELSE spec' = resolved.value /\ UNCHANGED error
    /\ pc' = "returned"
    /\ log' = Did("resolve")
    /\ UNCHANGED <<args, skip_prompts, overrides, values, idx, prompt,
                   prompt_default, stdin, identity, storage, output_text,
                   stdout, stderr, fs, exit_code>>

RegistryNext == ResolveSpec

RegistrySpec == RegistryInit /\ [][RegistryNext]_vars

-----------------------------------------------------------------------------
(* build_program_tagline called on its own *)

\* a context with the given entries; None leaves the key out
ContextOf(keys, vals) ==
    [k \in {keys[i] : i \in {j \in DOMAIN keys : vals[j] # None}} |->
        vals[CHOOSE i \in DOMAIN keys : keys[i] = k][1]]

TaglineContexts ==
    {ContextOf(<<"program_name", "program_description", "program_url", "email">>,
               <<name, description, url, email>>) :
        name \in {None, Some(""), Some("Foo"), Some(" Foo ")},
        description \in {None, Some(""), Some("does x")},
        url \in {None, Some("http://x")},
        email \in {None, Some(" "), Some("a@b.c")}}

TaglineInit ==
    /\ pc = "build_program_tagline"
    /\ args = NoArgs
    /\ spec = NoSpec
    /\ skip_prompts = FALSE
    /\ overrides = None
    /\ values \in TaglineContexts
    /\ idx = 0
    /\ prompt = ""
    /\ prompt_default = ""
    /\ stdin = 0
    /\ identity = NoEnvironment
    /\ storage = None
    /\ output_text = ""
    /\ error = None
    /\ stdout = ""
    /\ stderr = <<>>
    /\ fs = [before |-> None, now |-> None]
    /\ exit_code = None
    /\ log = EmptyLog

BuildProgramTagline ==
    /\ pc = "build_program_tagline"
    /\ output_text' = build_program_tagline(values)
    /\ pc' = "returned"
    /\ log' = Did("tagline")
    /\ UNCHANGED <<args, spec, skip_prompts, overrides, values, idx, prompt,
                   prompt_default, stdin, identity, storage, error, stdout,
                   stderr, fs, exit_code>>

TaglineNext == BuildProgramTagline

TaglineSpec == TaglineInit /\ [][TaglineNext]_vars

-----------------------------------------------------------------------------
(* render_license called on its own *)

Beginnings == {"", "\n"}
Endings == {"", "\n", "\n\n"}

\* template resources handed to render_license: missing, empty, or a body
\* starting with or without a newline and ending in no, one or two newlines
RenderResources(s) ==
    {None, Some("")}
        \cup {Some(start \o TemplateBody(s) \o ending) :
                    start \in Beginnings, ending \in Endings}

\* LicenseSpec values outside the registry, which render_license accepts as
\* it accepts any LicenseSpec: one with both replacements and a preamble
\* template, and one whose preamble is blank when the email is
BothStyles ==
    LicenseSpec("X-Both", "Both Styles License", "X-Both.txt", <<>>,
        <<
            FieldSpec("year", "Copyright year", Some("default_year"), FALSE, Some(PLACEHOLDER_YEAR)),
            FieldSpec("owner", "Copyright holder", Some("default_holder"), FALSE, Some(PLACEHOLDER_OWNER))
        >>,
        <<
            ReplacementSpec(<<"<year>">>, Literal("year")),
            ReplacementSpec(<<"<owner>">>, Callable("holder_with_email_owner"))
        >>,
        Some("Copyright (c) {year} {owner}"))

BlankPreamble ==
    LicenseSpec("X-Blank", "Blank Preamble License", "X-Blank.txt", <<>>,
        <<
            FieldSpec("email", "Contact email", Some("default_email"), TRUE, None)
        >>,
        <<>>,
        Some(" {email}\n"))

RenderSpecs == RegisteredSpecs \cup {BothStyles, BlankPreamble}

RenderContexts == {
    EmptyContext,
    [year |-> "2024", copyright_holder |-> "Jane Doe", owner |-> "Acme",
     email |-> "j@d.io", program_name |-> "Foo", program_description |-> "does x.",
     program_url |-> "http://x", project_name |-> "Proj"],
    [year |-> "2026", copyright_holder |-> PLACEHOLDER_HOLDER, owner |-> PLACEHOLDER_OWNER,
     email |-> "", program_name |-> PLACEHOLDER_PROGRAM, program_description |-> "",
     program_url |-> "", project_name |-> PLACEHOLDER_PROJECT],
    [year |-> "<owner>", copyright_holder |-> "<year>", owner |-> "[yyyy]",
     email |-> "", program_name |-> "<name of author>", program_description |-> "",
     program_url |-> "", project_name |-> "{year}"]
}

RenderInit ==
    /\ pc = "render_license"
    /\ args = NoArgs
    /\ spec \in RenderSpecs
    /\ skip_prompts = FALSE
    /\ overrides = None
    /\ values \in RenderContexts
    /\ idx = 0
    /\ prompt = ""
    /\ prompt_default = ""
    /\ stdin = 0
    /\ identity = NoEnvironment
    /\ storage \in RenderResources(spec)
    /\ output_text = ""
    /\ error = None
    /\ stdout = ""
    /\ stderr = <<>>
    /\ fs = [before |-> None, now |-> None]
    /\ exit_code = None
    /\ log = EmptyLog

\* render_license(spec, context) on the resource given
RenderCall ==
    /\ pc = "render_license"
    /\ LET rendered == render_license(spec, values, storage)
       IN  /\ output_text' = rendered.value
           /\ error' = rendered.raised
    /\ pc' = "returned"
    /\ log' = Did("render")
    /\ UNCHANGED <<args, spec, skip_prompts, overrides, values, idx, prompt,
                   prompt_default, stdin, identity, storage, stdout, stderr, fs,
                   exit_code>>

RenderNext == RenderCall

RenderSpec == RenderInit /\ [][RenderNext]_vars

-----------------------------------------------------------------------------
(* Properties of collect_field_values (ResolverSpec) *)

\* field i of the spec has been resolved
Resolved(i) == spec # NoSpec /\ i \in 1..Len(spec.fields) /\ i < idx

\* the caller's overrides give key a value that is non-empty after trimming
HasOverride(key) ==
    /\ overrides # None
    /\ key \in DOMAIN overrides[1]
    /\ strip(overrides[1][key]) # ""

\* v is raw without its leading and trailing whitespace
IsTrimOf(v, raw) ==
    \E a, b \in 0..Len(raw) :
        /\ a + b <= Len(raw)
        /\ v = SubSeq(raw, a + 1, Len(raw) - b)
        /\ \A i \in (1..a) \cup ((Len(raw) - b + 1)..Len(raw)) : Char(raw, i) \in Whitespace
        /\ v # "" => Char(v, 1) \notin Whitespace /\ Char(v, Len(v)) \notin Whitespace

\* C1: in the context built by collect_field_values every required field
\* key maps to a non-empty string, whatever the spec, overrides, mode and
\* answers; only optional fields may map to ""
C1_RequiredNonEmpty ==
    \A i \in 1..Len(spec.fields) :
        Resolved(i) /\ ~spec.fields[i].optional =>
            /\ spec.fields[i].key \in DOMAIN values
            /\ values[spec.fields[i].key] # ""

\* an interactive run that hit end-of-input returned with a required field
\* on its placeholder and an optional field empty
C1_Witness ==
    /\ pc = "returned"
    /\ ~skip_prompts
    /\ log.eofs > 0
    /\ \E i \in 1..Len(spec.fields) :
        ~spec.fields[i].optional /\ values[spec.fields[i].key] = spec.fields[i].placeholder[1]
    /\ \E i \in 1..Len(spec.fields) :
        spec.fields[i].optional /\ values[spec.fields[i].key] = ""

\* C2 as stated: an overridden field holds the override exactly as supplied,
\* its default_factory is not invoked and it is not prompted for
C2_OverrideVerbatim ==
    \A i \in 1..Len(spec.fields) :
        Resolved(i) /\ HasOverride(spec.fields[i].key) =>
            /\ values[spec.fields[i].key] = overrides[1][spec.fields[i].key]
            /\ spec.fields[i].key \notin log.factories
            /\ spec.fields[i].key \notin log.prompted

\* C2 amended: an overridden field holds the override with leading and
\* trailing whitespace removed, its default_factory is not invoked and it is
\* not prompted for
C2_OverrideTrimmed ==
    \A i \in 1..Len(spec.fields) :
        Resolved(i) /\ HasOverride(spec.fields[i].key) =>
            /\ IsTrimOf(values[spec.fields[i].key], overrides[1][spec.fields[i].key])
            /\ spec.fields[i].key \notin log.factories
            /\ spec.fields[i].key \notin log.prompted

\* an interactive run returned with a field overridden by a value that
\* carried surrounding whitespace
C2_Witness ==
    /\ pc = "returned"
    /\ ~skip_prompts
    /\ \E i \in 1..Len(spec.fields) :
        /\ HasOverride(spec.fields[i].key)
        /\ overrides[1][spec.fields[i].key] = " Zed\n"
        /\ values[spec.fields[i].key] = "Zed"

\* the trimmed default the identity provider yields for a field
ExpectedDefault(field) ==
    IF field.default_factory = None THEN ""
    ELSE IF field.default_factory = Some("default_year") THEN str(identity.year)
    ELSE IF field.default_factory = Some("default_holder") THEN strip(guess_full_name(identity))
    ELSE IF field.default_factory = Some("default_email") THEN strip(guess_email(identity))
    ELSE PathName(identity.cwd)

\* C3: in batch mode a field without a non-empty override holds its trimmed
\* default when that is non-empty, else its placeholder when it is required
\* and "" when it is optional
C3_BatchValue ==
    skip_prompts =>
        \A i \in 1..Len(spec.fields) :
            Resolved(i) /\ ~HasOverride(spec.fields[i].key) =>
                values[spec.fields[i].key] =
                    IF ExpectedDefault(spec.fields[i]) # ""
                    THEN ExpectedDefault(spec.fields[i])
                    ELSE IF spec.fields[i].optional THEN ""
                         ELSE spec.fields[i].placeholder[1]

\* a batch run returned with one field on a trimmed default, one required
\* field on its placeholder and one optional field empty
C3_Witness ==
    /\ pc = "returned"
    /\ skip_prompts
    /\ \E i, j, k \in 1..Len(spec.fields) :
        /\ ~HasOverride(spec.fields[i].key)
        /\ guess_full_name(identity) = " ann "
        /\ values[spec.fields[i].key] = "ann"
        /\ ~HasOverride(spec.fields[j].key)
        /\ ~spec.fields[j].optional
        /\ values[spec.fields[j].key] = spec.fields[j].placeholder[1]
        /\ ~HasOverride(spec.fields[k].key)
        /\ spec.fields[k].optional
        /\ values[spec.fields[k].key] = ""

-----------------------------------------------------------------------------
(* Properties of main (Spec, PlainSpec) *)

\* main has parsed the option
Parsed(option) == InMain /\ option \in DOMAIN args

\* the command line held --defaults and no override option
DefaultsOnly ==
    /\ Parsed("defaults")
    /\ args.defaults
    /\ args.flags = EmptyContext
    /\ args.set = <<>>

\* render_license has run on a template that is there
TemplatePresent == "render" \in log.did /\ storage # None

\* main refused to overwrite the output file
Refused ==
    /\ Parsed("output")
    /\ args.output # None
    /\ fs.before # None
    /\ ~args.force

\* C4 as stated: a run with --defaults and no overrides reads no input,
\* renders non-empty text when the template is there and then always ends
\* with exit code 0
C4_AlwaysSucceeds ==
    DefaultsOnly =>
        /\ log.reads = 0
        /\ pc # "input"
        /\ TemplatePresent => output_text # ""
        /\ TemplatePresent /\ pc \in {"done", "raised"} => exit_code = Exit(0)

\* C4 amended: a run with --defaults and no overrides reads no input,
\* renders non-empty text when the template is there and terminates; with
\* the template there it ends with exit code 0 once the text is written, with
\* exit code 1 when it refuses to overwrite an existing output file, and
\* with the error of a failed write otherwise
C4_BatchRun ==
    /\ [](DefaultsOnly =>
            /\ log.reads = 0
            /\ pc # "input"
            /\ TemplatePresent => output_text # ""
            /\ TemplatePresent /\ pc = "done" =>
                    /\ exit_code = IF Refused THEN Exit(1) ELSE Exit(0)
                    /\ ~Refused => "write" \in log.did
            /\ pc = "raised" =>
                    /\ args.output # None
                    /\ error # None
                    /\ error[1] = "OSError")
    /\ (DefaultsOnly /\ pc = "collect_field_values") ~> (pc \in {"done", "raised"})

\* a run with --defaults and no overrides rendered the template without a
\* read and ended by refusing to overwrite the output file
C4_Witness ==
    /\ pc = "done"
    /\ DefaultsOnly
    /\ TemplatePresent
    /\ Len(spec.fields) > 2
    /\ log.reads = 0
    /\ output_text # ""
    /\ Refused
    /\ exit_code = Exit(1)

\* C6: the rendered text contains the placeholder of every required field
\* that has no override and no non-empty default, in batch mode and in
\* interactive mode when the answer to the field's prompt was empty
C6_PlaceholderRendered ==
    TemplatePresent =>
        \A i \in 1..Len(spec.fields) :
            (/\ ~spec.fields[i].optional
             /\ ~HasOverride(spec.fields[i].key)
             /\ ExpectedDefault(spec.fields[i]) = ""
             /\ skip_prompts \/ spec.fields[i].key \in log.blank)
                => Contains(output_text, spec.fields[i].placeholder[1])

\* MIT rendered interactively with no holder available and an empty answer
\* to the holder prompt
C6_Witness ==
    /\ TemplatePresent
    /\ spec.key = "MIT"
    /\ ~skip_prompts
    /\ ~HasOverride("copyright_holder")
    /\ guess_full_name(identity) = ""
    /\ "copyright_holder" \in log.blank
    /\ Contains(output_text, "<copyright holder>")

\* the license arguments whose normalized form (lowercased, characters
\* that are not alphanumeric removed) the registry index does not hold
UnknownArgs ==
    {a : a \in {b \in LicenseArgs \ {None, Some("")} :
                    normalize_license_key(b[1]) \notin RegisteredKeys}}

\* the command line named a license that the registry index does not hold
UnknownLicense ==
    /\ Parsed("license")
    /\ ~args.list
    /\ args.license \in UnknownArgs

\* C8: resolving an identifier whose normalized form is not in the index
\* raises an error whose message holds the raw identifier and --list, and
\* main ends with exit code 1 having built no overrides, resolved no field
\* and rendered nothing
C8_UnknownLicense ==
    UnknownLicense =>
        /\ pc = "done"
        /\ error # None
        /\ error[1] = "KeyError"
        /\ Contains(error[2], args.license[1])
        /\ Contains(error[2], "--list")
        /\ exit_code = Exit(1)
        /\ log.did = {"resolve"}
        /\ spec = NoSpec
        /\ overrides = None
        /\ values = EmptyContext
        /\ output_text = ""
        /\ stdout = ""
        /\ fs.now = fs.before

\* main ended on an identifier that normalization changes and the index
\* does not hold
C8_Witness ==
    /\ pc = "done"
    /\ args.license = Some("GPL-4.0")
    /\ normalize_license_key("GPL-4.0") = "gpl40"
    /\ error # None
    /\ exit_code = Exit(1)

\* the pieces joined, each token replaced by the text given for it
Filled(pieces, by) ==
    Concat([i \in DOMAIN pieces |->
                IF pieces[i].token THEN Lit(by[pieces[i].text]) ELSE pieces[i]])

\* the stored Apache-2.0 template with 2024 for the year and holder for the
\* owner
ApacheFilled(holder) ==
    Filled(TemplatePieces(spec),
           [t \in {"[yyyy]", "[name of copyright owner]"} |->
                IF t = "[yyyy]" THEN "2024" ELSE holder])
        \o SubSeq(storage[1], Len(TemplateBody(spec)) + 1, Len(storage[1]))

\* a batch run on apache2 with only the overrides year 2024, holder Jane Doe
ApacheRun ==
    /\ Parsed("flags")
    /\ args.license = Some("apache2")
    /\ skip_prompts
    /\ args.flags = Flags(<<"year", "holder">>, <<"2024", "Jane Doe">>)
    /\ args.set = <<>>

\* C10 as stated: apache2 is Apache-2.0 and the batch run with year 2024 and
\* holder Jane Doe renders the template with [yyyy] as 2024 and the owner
\* token as exactly Jane Doe, whatever the identity provider supplies
C10_HolderExactly ==
    ApacheRun =>
        /\ spec.key = "Apache-2.0"
        /\ TemplatePresent =>
            output_text \in {ApacheFilled("Jane Doe"), ApacheFilled("Jane Doe") \o "\n"}

\* C10 amended: the owner token becomes Jane Doe when the identity provider
\* supplies no email and Jane Doe <email> when it supplies one; the rest of
\* the template is unchanged but for a newline appended when it ends
\* without one
C10_HolderWithEmail ==
    ApacheRun =>
        /\ spec.key = "Apache-2.0"
        /\ TemplatePresent =>
            LET email == strip(guess_email(identity))
                holder == IF email = "" THEN "Jane Doe"
                          ELSE "Jane Doe <" \o email \o ">"
            IN  output_text = IF endswith(storage[1], "\n")
                              THEN ApacheFilled(holder)
                              ELSE ApacheFilled(holder) \o "\n"

\* the batch run on apache2 ended with an email from the identity provider
\* in the rendered text
C10_Witness ==
    /\ pc = "done"
    /\ ApacheRun
    /\ TemplatePresent
    /\ guess_email(identity) = "e@x.io"
    /\ Contains(output_text, "Jane Doe <e@x.io>")

-----------------------------------------------------------------------------
(* Properties of render_license (RenderSpec) *)

\* the number of newline characters text ends with
TrailingNewlines(text) ==
    CHOOSE n \in 0..Len(text) :
        /\ \A i \in (Len(text) - n + 1)..Len(text) : Char(text, i) = "\n"
        /\ n < Len(text) => Char(text, Len(text) - n) # "\n"

\* C5 as stated: whatever the body ends with, the text render_license
\* returns ends with exactly one newline
C5_ExactlyOneNewline ==
    pc = "returned" /\ error = None => TrailingNewlines(output_text) = 1

\* C5 amended: the text render_license returns is the text after
\* replacements and preamble, with one newline appended when that text ends
\* without one and nothing appended or removed when it ends with one or more
C5_NewlineKept ==
    pc = "returned" /\ error = None =>
        LET text == RenderBody(spec, values, storage).value
        IN  /\ TrailingNewlines(output_text) = Max({1, TrailingNewlines(text)})
            /\ Len(output_text) = Len(text) + (IF TrailingNewlines(text) = 0 THEN 1 ELSE 0)
            /\ SubSeq(output_text, 1, Len(text)) = text

\* render_license returned on a body that ends with two newlines
C5_Witness ==
    /\ pc = "returned"
    /\ error = None
    /\ TrailingNewlines(storage[1]) = 2
    /\ TrailingNewlines(output_text) = 2

-----------------------------------------------------------------------------
(* Properties of resolve_spec (RegistrySpec) *)

\* spec i declares a key or an alias whose normalized form is k
Declares(i, k) ==
    \/ normalize_license_key(LICENSE_SPECS[i].key) = k
    \/ \E j \in 1..Len(LICENSE_SPECS[i].aliases) :
            normalize_license_key(LICENSE_SPECS[i].aliases[j]) = k

\* the identifier resolved is an alias of spec i
AliasOf(i) ==
    \E j \in 1..Len(LICENSE_SPECS[i].aliases) :
        LICENSE_SPECS[i].aliases[j] = args.license[1]

\* C7: the key of a registered spec resolves to that spec; an alias of it
\* resolves to it or to a spec registered later that declares the same
\* normalized form, and never to a spec registered before another spec that
\* declares that form
C7_KeysAndAliases ==
    pc = "returned" =>
        \A i \in 1..Len(LICENSE_SPECS) :
            /\ args.license[1] = LICENSE_SPECS[i].key =>
                    error = None /\ spec = LICENSE_SPECS[i]
            /\ AliasOf(i) =>
                    /\ error = None
                    /\ \/ spec = LICENSE_SPECS[i]
                       \/ \E m \in (i + 1)..Len(LICENSE_SPECS) :
                            /\ spec = LICENSE_SPECS[m]
                            /\ Declares(m, normalize_license_key(args.license[1]))
                    /\ \A m \in 1..Len(LICENSE_SPECS) :
                            Declares(m, normalize_license_key(args.license[1])) =>
                                \E n \in m..Len(LICENSE_SPECS) : spec = LICENSE_SPECS[n]

\* an alias of one spec resolved to a spec registered later
C7_Witness ==
    /\ pc = "returned"
    /\ error = None
    /\ \E i \in 1..Len(LICENSE_SPECS) :
        /\ AliasOf(i)
        /\ \E m \in (i + 1)..Len(LICENSE_SPECS) : spec = LICENSE_SPECS[m]

-----------------------------------------------------------------------------
(* Properties of build_program_tagline (TaglineSpec) *)

\* the context holds a value for key that is not blank
NonBlank(key) == key \in DOMAIN values /\ strip(values[key]) # ""

\* program_name and email are the only entries that are not blank
OnlyNameAndEmail ==
    \A key \in {"program_name", "program_description", "program_url", "email"} :
        NonBlank(key) <=> key \in {"program_name", "email"}

\* C9 as stated: with only a program name N and an email E the tagline is
\* N, one space and <E>; on the empty context it is This program
C9_NameSpaceEmail ==
    pc = "returned" =>
        /\ OnlyNameAndEmail =>
                output_text = strip(values.program_name) \o " <" \o strip(values.email) \o ">"
        /\ values = EmptyContext => output_text = "This program"

\* C9 amended: with only a program name N and an email E the tagline is
\* N, the separator " - " and <E>; on the empty context it is This program
C9_NameDashEmail ==
    pc = "returned" =>
        /\ OnlyNameAndEmail =>
                output_text = strip(values.program_name) \o " - <" \o strip(values.email) \o ">"
        /\ values = EmptyContext => output_text = "This program"

\* the tagline of program_name Foo and email a@b.c was built
C9_Witness ==
    /\ pc = "returned"
    /\ values = [program_name |-> "Foo", email |-> "a@b.c"]
    /\ OnlyNameAndEmail
    /\ output_text # ""

-----------------------------------------------------------------------------
(* Properties of the command-line overrides (Spec) *)

\* collect_field_values has returned in this run of main
Collected ==
    /\ Parsed("set")
    /\ "collect" \in log.did
    /\ pc \in {"render_license", "write", "done", "raised"}

\* the key and the value of a --set token, split at its first "="
SetKey(token) == strip(SubSeq(token, 1, find(token, "=") - 1))
SetValue(token) == SubSeq(token, find(token, "=") + 1, Len(token))

\* the keys given by --set, and the value of the last --set for a key
SetKeys == {SetKey(args.set[i]) : i \in 1..Len(args.set)}
LastSet(key) ==
    SetValue(args.set[Max({i \in 1..Len(args.set) : SetKey(args.set[i]) = key})])

\* the value a field without override takes in batch mode
BatchCandidate(field) ==
    IF ExpectedDefault(field) # "" THEN ExpectedDefault(field)
    ELSE IF field.optional THEN "" ELSE field.placeholder[1]

\* C11 as stated: the context maps every --set key to the value of its last
\* --set, whatever that value is, an empty one included
C11_SetAlwaysWins ==
    Collected =>
        \A key \in SetKeys :
            /\ key \in DOMAIN values
            /\ values[key] = strip(LastSet(key))

\* C11 amended: the context maps a --set key to the trimmed value of its
\* last --set when that is non-empty, whatever the direct flag, the default
\* and the mode; an empty or blank value removes the override of the key
\* instead, the field then resolving as one without override
C11_SetWinsUnlessBlank ==
    Collected =>
        \A key \in SetKeys :
            IF strip(LastSet(key)) # ""
            THEN /\ key \in DOMAIN values
                 /\ values[key] = strip(LastSet(key))
                 /\ key \notin log.factories
                 /\ key \notin log.prompted
            ELSE /\ ~HasOverride(key)
                 /\ \A i \in 1..Len(spec.fields) :
                        spec.fields[i].key = key /\ skip_prompts =>
                            values[key] = BatchCandidate(spec.fields[i])
                 /\ (\A i \in 1..Len(spec.fields) : spec.fields[i].key # key) =>
                        key \notin DOMAIN values

\* a run given --year 2024 and --set year=1999 resolved the year as 1999
C11_Witness ==
    /\ Collected
    /\ args.flags = Flags(<<"year">>, <<"2024">>)
    /\ args.set = <<"year=1999">>
    /\ values["year"] = "1999"

\* the --set tokens that build_cli_overrides rejects, and the first of them
Malformed ==
    {i \in 1..Len(args.set) :
        ~Contains(args.set[i], "=") \/ SetKey(args.set[i]) = ""}
Offending == args.set[Min(Malformed)]

\* C12: a --set token without "=" or with an empty key ends the run with
\* exit code 1 and an error that names the token, before any field is
\* touched: no factory call, no prompt, nothing rendered, nothing written
C12_MalformedSetNamed ==
    Parsed("set") /\ Malformed # {} =>
        /\ pc = "done"
        /\ exit_code = Exit(1)
        /\ error # None
        /\ error[1] = "ValueError"
        /\ stderr = <<error[2]>>
        /\ Contains(error[2], Offending)
        /\ log.did = {"resolve", "overrides"}
        /\ log.factories = {}
        /\ log.prompted = {}
        /\ values = EmptyContext
        /\ output_text = ""
        /\ stdout = ""
        /\ fs.now = fs.before

-----------------------------------------------------------------------------
(* Properties of the output step of main (Spec) *)

\* C13: whenever main returns 1 no license text has been written to stdout
\* and the output path is as it was: not created, not truncated, not
\* modified
C13_FailureWritesNothing ==
    exit_code = Exit(1) =>
        /\ stdout = ""
        /\ fs.now = fs.before
        /\ "write" \notin log.did

\* main returned 1 on an existing output file given without --force, the
\* file keeping its content
C13_Witness ==
    /\ pc = "done"
    /\ exit_code = Exit(1)
    /\ Refused
    /\ output_text # ""
    /\ fs.before = Some(OldFile)
    /\ fs.now = Some(OldFile)

-----------------------------------------------------------------------------
(* Properties of the prompt loop (ResolverSpec, ResolverFairSpec) *)

\* C14: in interactive mode, when every read hits end-of-input,
\* collect_field_values returns without error or diagnostic, and every field
\* without override holds its default, else its placeholder when required
\* and "" when optional
C14_EndOfInput ==
    /\ [](~skip_prompts /\ log.reads = log.eofs =>
            /\ error = None
            /\ stderr = <<>>
            /\ pc = "returned" =>
                \A i \in 1..Len(spec.fields) :
                    ~HasOverride(spec.fields[i].key) =>
                        /\ spec.fields[i].key \in DOMAIN values
                        /\ values[spec.fields[i].key] = BatchCandidate(spec.fields[i]))
    /\ (~skip_prompts /\ pc = "collect_field_values")
            ~> (pc = "returned" \/ log.reads # log.eofs)

\* an interactive run returned after three reads that all hit end-of-input
C14_Witness ==
    /\ pc = "returned"
    /\ ~skip_prompts
    /\ log.eofs >= 3
    /\ log.reads = log.eofs
    /\ \E i \in 1..Len(spec.fields) :
        ~spec.fields[i].optional /\ values[spec.fields[i].key] = spec.fields[i].placeholder[1]

-----------------------------------------------------------------------------
(* Properties of the rendering mechanisms (RenderSpec) *)

\* C15: when spec.replacements is non-empty, render_license on a loaded
\* template performs only the token replacement: it raises nothing and
\* returns the replaced text (with its final newline), a preamble template
\* that is also set being neither formatted nor prepended
C15_OneMechanism ==
    pc = "returned" /\ storage # None /\ spec.replacements # <<>> =>
        /\ error = None
        /\ output_text =
                EnsureNewline(apply_replacements(storage[1], spec.replacements, values))

\* the number of newline characters text starts with
LeadingNewlines(text) ==
    CHOOSE n \in 0..Len(text) :
        /\ \A i \in 1..n : Char(text, i) = "\n"
        /\ n < Len(text) => Char(text, n + 1) # "\n"

\* render_license returned on a loaded body for a spec that has a preamble
\* template and no replacements, every field of the template being a key of
\* the context
PreambleRendered ==
    /\ pc = "returned"
    /\ storage # None
    /\ spec.replacements = <<>>
    /\ spec.preamble_template # None
    /\ format_map(spec.preamble_template[1], values).missing = None

\* the formatted preamble without its leading and trailing whitespace
Preamble == strip(format_map(spec.preamble_template[1], values).text)

\* what follows the preamble in the returned text
AfterPreamble == SubSeq(output_text, Len(Preamble) + 1, Len(output_text))

\* C16 as stated: a non-empty stripped preamble is followed in the output by
\* exactly one blank line and then the body, whatever the body starts with;
\* with an empty stripped preamble the body is returned as loaded
C16_OneBlankLine ==
    PreambleRendered =>
        /\ error = None
        /\ Preamble # "" =>
                /\ SubSeq(output_text, 1, Len(Preamble)) = Preamble
                /\ AfterPreamble = EnsureNewline("\n\n" \o storage[1])
                /\ LeadingNewlines(AfterPreamble) = 2
        /\ Preamble = "" => output_text = EnsureNewline(storage[1])

\* C16 amended: a non-empty stripped preamble is followed in the output by
\* two newline characters and then the body as loaded, so that the blank
\* lines after the preamble are one more than the newlines the body starts
\* with; with an empty stripped preamble the body is returned as loaded
C16_PreambleThenBody ==
    PreambleRendered =>
        /\ error = None
        /\ Preamble # "" =>
                /\ SubSeq(output_text, 1, Len(Preamble)) = Preamble
                /\ AfterPreamble = EnsureNewline("\n\n" \o storage[1])
                /\ LeadingNewlines(AfterPreamble) = 2 + LeadingNewlines(storage[1])
        /\ Preamble = "" => output_text = EnsureNewline(storage[1])

\* a preamble was prepended to a body that starts with a newline
C16_Witness ==
    /\ PreambleRendered
    /\ Preamble # ""
    /\ storage[1] # ""
    /\ LeadingNewlines(storage[1]) = 1
    /\ LeadingNewlines(AfterPreamble) = 3

\* the preamble of a spec formatted to blank text and the body came back
C16_BlankWitness ==
    /\ PreambleRendered
    /\ format_map(spec.preamble_template[1], values).text # ""
    /\ Preamble = ""
    /\ storage[1] # ""
    /\ output_text = EnsureNewline(storage[1])

\* the loaded body as pieces: the template pieces between the beginning and
\* the ending the resource was stored with
StoredPieces ==
    LET ends == CHOOSE x \in Beginnings \X Endings :
                    x[1] \o TemplateBody(spec) \o x[2] = storage[1]
    IN  <<Lit(ends[1])>> \o TemplatePieces(spec) \o <<Lit(ends[2])>>

\* the rule of the spec that declares the token, and the place of the token
\* among the tokens of that rule
RuleOf(token) ==
    Min({i \in 1..Len(spec.replacements) :
            \E j \in 1..Len(spec.replacements[i].tokens) :
                spec.replacements[i].tokens[j] = token})

PlaceOf(token) ==
    Min({j \in 1..Len(spec.replacements[RuleOf(token)].tokens) :
            spec.replacements[RuleOf(token)].tokens[j] = token})

\* what an occurrence of the token in the template ends as: the value of its
\* rule, rewritten by the tokens of that rule that come after it and then by
\* the rules declared after that rule, and by no rule declared before it
FoldedValue(token) ==
    LET rule == spec.replacements[RuleOf(token)]
        value == evaluate_value(rule.value, values)
        own == ReplaceTokens(value,
                             SubSeq(rule.tokens, PlaceOf(token) + 1, Len(rule.tokens)),
                             value)
    IN  apply_replacements(own,
                           SubSeq(spec.replacements, RuleOf(token) + 1,
                                  Len(spec.replacements)),
                           values)

\* render_license returned on a non-empty loaded body for a spec with
\* replacement rules and no preamble
ReplacementRendered ==
    /\ pc = "returned"
    /\ storage # None
    /\ storage[1] # ""
    /\ spec.replacements # <<>>
    /\ spec.preamble_template = None

\* the context whose year is the token of the BSD owner rule and whose
\* holder is the token of the year rule
CrossedContext ==
    /\ values # EmptyContext
    /\ values["year"] = "<owner>"
    /\ values["copyright_holder"] = "<year>"
    /\ values["owner"] = "[yyyy]"
    /\ values["email"] = ""

\* C17: token replacement folds over the rules in declared order: every
\* token of the template ends as the value of its rule rewritten by the
\* rules declared later and by none declared earlier; BSD with the year
\* '<owner>' has the owner text in the year position, and MIT with the
\* holder '<year>' keeps '<year>' in the holder position
C17_LeftToRightFold ==
    ReplacementRendered =>
        /\ error = None
        /\ output_text =
                EnsureNewline(Filled(StoredPieces,
                                     [t \in {AllTokens(spec.replacements)[i] :
                                                i \in 1..Len(AllTokens(spec.replacements))}
                                        |-> FoldedValue(t)]))
        /\ CrossedContext /\ spec.key \in {"BSD-3-Clause", "BSD-2-Clause"} =>
                /\ Contains(output_text, "* [yyyy]\n* [yyyy]\n")
                /\ Contains(output_text, "See [yyyy].\n")
                /\ ~Contains(output_text, "<owner>")
        /\ CrossedContext /\ spec.key = "MIT" =>
                /\ Contains(output_text, "* <owner>\n* <year>\n")
                /\ Contains(output_text, "See <owner>.\n")

\* BSD-3-Clause rendered with the year '<owner>': the owner rule rewrote the
\* text the year rule introduced
C17_Witness ==
    /\ ReplacementRendered
    /\ CrossedContext
    /\ spec.key = "BSD-3-Clause"
    /\ Contains(storage[1], "* <year>\n* <owner>\n")
    /\ Contains(output_text, "* [yyyy]\n* [yyyy]\n")

-----------------------------------------------------------------------------
(* Properties of the resolved context (Spec, ResolverSpec) *)

\* C18: once collect_field_values has returned in main, the context holds an
\* entry for every field key the spec declares; for a spec with a preamble
\* template every field the template references is then a key of the
\* context and no KeyError is raised, by rendering or later
C18_EveryFieldResolved ==
    Collected =>
        /\ \A i \in 1..Len(spec.fields) : spec.fields[i].key \in DOMAIN values
        /\ spec.preamble_template # None =>
                /\ format_map(spec.preamble_template[1], values).missing = None
                /\ error = None \/ error[1] # "KeyError"

\* an interactive run on CC0-1.0 read an answer and rendered the preamble
\* from the resolved context
C18_Witness ==
    /\ Collected
    /\ pc = "done"
    /\ spec.key = "CC0-1.0"
    /\ ~skip_prompts
    /\ log.reads > 0
    /\ TemplatePresent
    /\ error = None
    /\ Contains(output_text, "Copyright (c) " \o values["year"] \o " ")

\* the fields the loop of collect_field_values has gone through that have no
\* override
Asked ==
    {i \in 1..Len(spec.fields) : i < idx /\ ~HasOverride(spec.fields[i].key)}

\* C19: in interactive mode every field without an override is read exactly
\* once, and for no field of any spec, whatever is typed, is the branch
\* taken that prints 'This field is required.' and reads again
C19_OneAnswerPerField ==
    ~skip_prompts /\ pc \in {"field", "input", "returned"} =>
        /\ log.required = 0
        /\ \A n \in 1..Len(stderr) : stderr[n] # "This field is required."
        /\ log.reads = Cardinality(Asked)
        /\ log.prompted = {spec.fields[i].key : i \in Asked}
        /\ pc = "input" => ~HasOverride(spec.fields[idx].key) /\ idx \notin Asked
        /\ pc = "returned" => idx = Len(spec.fields) + 1

\* an interactive run returned after a typed answer and an end-of-input on
\* a required field without a default, each read once
C19_Witness ==
    /\ pc = "returned"
    /\ ~skip_prompts
    /\ stdin = 1
    /\ log.eofs >= 1
    /\ log.reads = Cardinality(Asked)
    /\ \E i \in Asked :
            /\ ~spec.fields[i].optional
            /\ spec.fields[i].key \in log.blank
            /\ values[spec.fields[i].key] = spec.fields[i].placeholder[1]

====
